---- MODULE Spec2Model ----
(***************************************************************************)
(* gttp (src/main.go, the current definition: lines 1-665).                *)
(*                                                                         *)
(* A Go string is modelled as a sequence of one-character strings; the     *)
(* alphabets used are ASCII, so the byte index of `range` and the rune     *)
(* index coincide.  nil, and a result not yet there, is the empty          *)
(* sequence <<>>; a value x that is there is <<x>>.                        *)
(*                                                                         *)
(* Four specifications: SpecKV applies parseKeyValue and unescape to       *)
(* every short string, SpecJSON applies printJSON and addValues to every   *)
(* small decoded value, SpecArgs runs parseArgs alone, Spec runs main from *)
(* the parsed flags to the exit of the process.  Of main, the flags -v,    *)
(* -auth, -color, -n, -t, -k and -e, the usage path of an empty command    *)
(* line, the http:// prefix and the default and user headers are left      *)
(* out: they decide neither the body, the method nor the exit status.      *)
(* The bytes of a body are not built: a body is the encoding chosen and    *)
(* the values it was encoded from.                                         *)
(***************************************************************************)
EXTENDS Integers, Sequences, FiniteSets, TLC

VARIABLES
    kvIn,       \* argument of parseKeyValue / unescape (SpecKV)
    kvOut,      \* result of parseKeyValue, or NoResult
    unOut,      \* result of unescape, or NoResult
    jsVal,      \* argument of printJSON / addValues (SpecJSON)
    jsOut,      \* what each call of printJSON(1, jsVal, false) printed
    avIn,       \* the url.Values and the key addValues is called with
    avOut,      \* the url.Values after addValues and its log, or NoResult
    argv,       \* flag.Args(): [method] url key/value...
    flag,       \* the parsed command-line flags
    pc,         \* where main (or parseArgs) stands
    method,     \* main: method
    methodProvided,
    args,       \* the arguments handed to parseArgs
    pi,         \* parseArgs: arguments consumed by the loop
    kvp,        \* parseArgs: the kvpairs under construction
    heap,       \* the backing arrays of the []string slices
    ret,        \* what parseArgs returned, or NoResult
    rawQuery,   \* req.URL.RawQuery before encoding: the url.Values added
    bodyparams, \* main: bodyparams
    postFiles,  \* main: postFiles
    rawBodyFilename,
    body,       \* main: body (nil is <<>>)
    header,     \* req.Header and req.ContentLength as set by body assembly
    opened,     \* the files os.Open was called on, in order, with the outcome
    logged,     \* what the log package wrote
    sent,       \* http.DefaultClient.Do was called
    response,   \* the response received (<<>> when none)
    shown,      \* what was printed of the response
    exitCode    \* the exit status of the process (<<>> while it runs)

jsonvars == <<jsVal, jsOut, avIn, avOut>>
kvvars == <<kvIn, kvOut, unOut, jsonvars>>
parsevars == <<args, pi, kvp, heap, ret>>
mainvars == <<argv, flag, method, methodProvided, rawQuery, bodyparams, postFiles,
              rawBodyFilename, body, header, opened, logged, sent, response,
              shown, exitCode>>
vars == <<kvvars, pc, parsevars, mainvars>>

\* a result not yet returned is <<>>, a returned result r is <<r>>
NoResult == <<>>

\* ---------------------------------------------------------------- bounds
MaxLen == 5
MaxArgs == 2
MaxArgsP == 5
MaxElems == 2

\* ------------------------------------------------------------- kvtype
kvpUnknown == 0
kvpHeader == 1
kvpQuery == 2
kvpBody == 3
kvpJSON == 4
kvpFile == 5

BS == "\\"

\* ------------------------------------------------------------ unescape
\* a faulty variant: a backslash that ends the string is kept
RECURSIVE unescapeLoopKeepsLast(_, _, _, _)
unescapeLoopKeepsLast(s, i, u, escape) ==
    IF i > Len(s) THEN (IF escape THEN Append(u, BS) ELSE u)
    ELSE LET c == s[i] IN
         IF escape THEN unescapeLoopKeepsLast(s, i + 1, Append(u, c), FALSE)
         ELSE IF c = BS THEN unescapeLoopKeepsLast(s, i + 1, u, TRUE)
         ELSE unescapeLoopKeepsLast(s, i + 1, Append(u, c), FALSE)

RECURSIVE unescapeLoop(_, _, _, _)
unescapeLoop(s, i, u, escape) ==
    IF i > Len(s) THEN u
    ELSE LET c == s[i] IN
         IF escape THEN unescapeLoop(s, i + 1, Append(u, c), FALSE)
         ELSE IF c = BS THEN unescapeLoop(s, i + 1, u, TRUE)
         ELSE unescapeLoop(s, i + 1, Append(u, c), FALSE)

unescape(s) == unescapeLoop(s, 1, <<>>, FALSE)

\* -------------------------------------------------------- parseKeyValue
KV(t, k, v) == [t |-> t, k |-> k, v |-> v]

\* keyvalue[n:] of Go, n a 0-based byte offset
From(s, n) == SubSeq(s, n + 1, Len(s))

\* a faulty variant: the escape flag is ignored when a delimiter is met
RECURSIVE pkvLoopNoEscape(_, _, _, _)
pkvLoopNoEscape(keyvalue, i, k, escape) ==
    IF i >= Len(keyvalue) THEN KV(kvpUnknown, <<>>, <<>>)
    ELSE LET c == keyvalue[i + 1] IN
         IF escape /\ c \notin {":", "=", "@"}
           THEN pkvLoopNoEscape(keyvalue, i + 1, Append(k, c), FALSE)
         ELSE IF c = BS THEN pkvLoopNoEscape(keyvalue, i + 1, k, TRUE)
         ELSE IF c = ":" THEN
              IF i + 1 < Len(keyvalue) /\ keyvalue[i + 2] = "="
                THEN KV(kvpJSON, k, unescape(From(keyvalue, i + 2)))
                ELSE KV(kvpHeader, k, unescape(From(keyvalue, i + 1)))
         ELSE IF c = "=" THEN
              IF i + 1 < Len(keyvalue) /\ keyvalue[i + 2] = "="
                THEN KV(kvpQuery, k, unescape(From(keyvalue, i + 2)))
                ELSE KV(kvpBody, k, unescape(From(keyvalue, i + 1)))
         ELSE IF c = "@" THEN KV(kvpFile, k, unescape(From(keyvalue, i + 1)))
         ELSE pkvLoopNoEscape(keyvalue, i + 1, Append(k, c), FALSE)

\* the run-time panic of an index out of range, apart from the six kinds
Panic == KV(kvpFile + 1, <<>>, <<>>)

\* a faulty variant: keyvalue[i+1] is read without the test i+1 < len(keyvalue)
RECURSIVE pkvLoopPeekUnchecked(_, _, _, _)
pkvLoopPeekUnchecked(keyvalue, i, k, escape) ==
    IF i >= Len(keyvalue) THEN KV(kvpUnknown, <<>>, <<>>)
    ELSE LET c == keyvalue[i + 1] IN
         IF escape THEN pkvLoopPeekUnchecked(keyvalue, i + 1, Append(k, c), FALSE)
         ELSE IF c = BS THEN pkvLoopPeekUnchecked(keyvalue, i + 1, k, TRUE)
         ELSE IF c = ":" THEN
              IF i + 1 >= Len(keyvalue) THEN Panic
              ELSE IF keyvalue[i + 2] = "="
                THEN KV(kvpJSON, k, unescape(From(keyvalue, i + 2)))
                ELSE KV(kvpHeader, k, unescape(From(keyvalue, i + 1)))
         ELSE IF c = "=" THEN
              IF i + 1 >= Len(keyvalue) THEN Panic
              ELSE IF keyvalue[i + 2] = "="
                THEN KV(kvpQuery, k, unescape(From(keyvalue, i + 2)))
                ELSE KV(kvpBody, k, unescape(From(keyvalue, i + 1)))
         ELSE IF c = "@" THEN KV(kvpFile, k, unescape(From(keyvalue, i + 1)))
         ELSE pkvLoopPeekUnchecked(keyvalue, i + 1, Append(k, c), FALSE)

\* the loop of parseKeyValue from 0-based index i, with k and escape as they
\* stand at the top of that iteration (keyvalue[i] of Go is keyvalue[i + 1])
RECURSIVE pkvLoop(_, _, _, _)
pkvLoop(keyvalue, i, k, escape) ==
    IF i >= Len(keyvalue) THEN KV(kvpUnknown, <<>>, <<>>)
    ELSE LET c == keyvalue[i + 1] IN
         IF escape THEN pkvLoop(keyvalue, i + 1, Append(k, c), FALSE)
         ELSE IF c = BS THEN pkvLoop(keyvalue, i + 1, k, TRUE)
         ELSE IF c = ":" THEN
              IF i + 1 < Len(keyvalue) /\ keyvalue[i + 2] = "="
                THEN KV(kvpJSON, k, unescape(From(keyvalue, i + 2)))
                ELSE KV(kvpHeader, k, unescape(From(keyvalue, i + 1)))
         ELSE IF c = "=" THEN
              IF i + 1 < Len(keyvalue) /\ keyvalue[i + 2] = "="
                THEN KV(kvpQuery, k, unescape(From(keyvalue, i + 2)))
                ELSE KV(kvpBody, k, unescape(From(keyvalue, i + 1)))
         ELSE IF c = "@" THEN KV(kvpFile, k, unescape(From(keyvalue, i + 1)))
         ELSE pkvLoop(keyvalue, i + 1, Append(k, c), FALSE)

parseKeyValue(keyvalue) == pkvLoop(keyvalue, 0, <<>>, FALSE)

\* ------------------------------------------------------- Go containers
\* a map is a function whose domain is the set of keys present
EmptyMap == << >>
Put(m, k, v) == [x \in (DOMAIN m) \cup {k} |-> IF x = k THEN v ELSE m[x]]

\* a []string is (backing array, len, cap); heap[a] is the array, cap long
nilSlice == [a |-> 0, len |-> 0, cap |-> 0]
Get(m, k) == IF k \in DOMAIN m THEN m[k] ELSE nilSlice

Elems(h, s) == IF s.len = 0 THEN <<>> ELSE SubSeq(h[s.a], 1, s.len)

Zeros(n) == [i \in 1..n |-> <<>>]

\* the capacity the runtime gives a []string that grows to hold `need`
\* elements: doubled while small, and 16-byte elements in 1, 2, 4, 8, ...
\* fill a malloc size class exactly
growCap(cap, need) == IF need > 2 * cap THEN need ELSE 2 * cap

\* append(s, v): <<heap afterwards, the slice returned>>
append(h, s, v) ==
    IF s.len < s.cap
      THEN <<[h EXCEPT ![s.a][s.len + 1] = v], [s EXCEPT !.len = s.len + 1]>>
      ELSE LET c == growCap(s.cap, s.len + 1) IN
           <<Append(h, Elems(h, s) \o <<v>> \o Zeros(c - s.len - 1)),
             [a |-> Len(h) + 1, len |-> s.len + 1, cap |-> c]>>

\* ------------------------------------------------------------ parseArgs
LogEntry(msg, arg) == [msg |-> msg, arg |-> arg]

NewKvpairs ==
    [headers |-> EmptyMap, query |-> EmptyMap, js |-> EmptyMap,
     body |-> EmptyMap, file |-> EmptyMap]

\* the state parseArgs starts in
ParseArgsEntry(a) ==
    /\ args = a
    /\ pi = 0
    /\ kvp = NewKvpairs
    /\ heap = <<>>
    /\ ret = NoResult

\* a faulty variant: the error is returned together with the bundle built so far
BadKeyValuePartial(k, arg) ==
    [kvp |-> <<k>>, err |-> <<LogEntry("bad key/value: ", arg)>>]

\* a faulty variant: the Unknown token ends the loop without an error
BadKeyValueSwallowed(k, arg) == [kvp |-> <<k>>, err |-> <<>>]

\* line 126: return nil, errors.New("bad key/value: " + arg), k being kvp
BadKeyValue(k, arg) ==
    [kvp |-> <<>>, err |-> <<LogEntry("bad key/value: ", arg)>>]

\* one iteration of the loop over args
ParseArg ==
    /\ pc = "parseArgs"
    /\ pi < Len(args)
    /\ LET arg == args[pi + 1]
           r == parseKeyValue(arg)
           t == r.t
           k == r.k
           v == r.v
       IN
       CASE t = kvpUnknown ->
              /\ ret' = <<BadKeyValue(kvp, arg)>>
              /\ pc' = "parseArgsDone"
              /\ UNCHANGED <<kvp, heap, pi>>
         [] t = kvpHeader ->
              /\ kvp' = [kvp EXCEPT !.headers = Put(@, k, v)]
              /\ pi' = pi + 1
              /\ UNCHANGED <<heap, ret, pc>>
         [] t = kvpQuery ->
              LET vs == Get(kvp.query, k)
                  ap == append(heap, vs, v)
              IN /\ heap' = ap[1]
                 /\ kvp' = [kvp EXCEPT !.query = Put(@, k, ap[2])]
                 /\ pi' = pi + 1
                 /\ UNCHANGED <<ret, pc>>
         [] t = kvpBody ->
              LET vs == Get(kvp.query, k)
                  ap == append(heap, vs, v)
              IN /\ heap' = ap[1]
                 /\ kvp' = [kvp EXCEPT !.body = Put(@, k, ap[2])]
                 /\ pi' = pi + 1
                 /\ UNCHANGED <<ret, pc>>
         [] t = kvpJSON ->
              /\ kvp' = [kvp EXCEPT !.js = Put(@, k, v)]
              /\ pi' = pi + 1
              /\ UNCHANGED <<heap, ret, pc>>
         [] t = kvpFile ->
              /\ kvp' = [kvp EXCEPT !.file = Put(@, k, v)]
              /\ pi' = pi + 1
              /\ UNCHANGED <<heap, ret, pc>>
    /\ UNCHANGED <<args, kvvars, mainvars>>

\* the loop is over: return &kvp, nil
ParseArgsReturn ==
    /\ pc = "parseArgs"
    /\ pi = Len(args)
    /\ ret' = <<[kvp |-> <<kvp>>, err |-> <<>>]>>
    /\ pc' = "parseArgsDone"
    /\ UNCHANGED <<args, pi, kvp, heap, kvvars, mainvars>>

\* --------------------------------------------------- decoded values
\* an interface{} value is <<Go type, value>>
Val(tag, v) == <<tag, v>>

TypeOf(x) == x[1]

ValueOf(x) == x[2]

Str(text) == Val("string", text)

Digits == {"0", "1", "2", "3", "4", "5", "6", "7", "8", "9"}

\* json.Unmarshal([]byte(v), &vint) on the JSON texts of the model: the
\* literals, unsigned integers, a string without escapes and the empty
\* containers; <<>> is an error, <<x>> the value decoded
jsonUnmarshal(v) ==
    IF v = <<"t", "r", "u", "e">> THEN <<Val("bool", TRUE)>>
    ELSE IF v = <<"f", "a", "l", "s", "e">> THEN <<Val("bool", FALSE)>>
    ELSE IF v = <<"n", "u", "l", "l">> THEN <<Val("nil", <<>>)>>
    ELSE IF v = <<"[", "]">> THEN <<Val("[]interface{}", <<>>)>>
    ELSE IF v = <<"{", "}">> THEN <<Val("map", EmptyMap)>>
    ELSE IF /\ Len(v) >= 1
            /\ \A i \in 1..Len(v) : v[i] \in Digits
            /\ (Len(v) = 1 \/ v[1] # "0")
      THEN <<Val("float64", v)>>
    ELSE IF /\ Len(v) >= 2
            /\ v[1] = "\"" /\ v[Len(v)] = "\""
            /\ \A i \in 2..(Len(v) - 1) : v[i] \notin {"\"", BS}
      THEN <<Str(SubSeq(v, 2, Len(v) - 1))>>
    ELSE <<>>

\* url.Values.Add
Add(values, key, value) ==
    Put(values, key,
        (IF key \in DOMAIN values THEN values[key] ELSE <<>>) \o <<value>>)

\* the orders in which `range` may visit the keys of a map
Orders(m) ==
    LET n == Cardinality(DOMAIN m) IN
    {o \in [1..n -> DOMAIN m] : \A i, j \in 1..n : o[i] = o[j] => i = j}

DigitOf(n) == <<"0", "1", "2", "3", "4", "5", "6", "7", "8", "9">>[n + 1]

\* digits without their trailing zeros
RECURSIVE StripZeros(_)
StripZeros(d) ==
    IF Len(d) > 1 /\ d[Len(d)] = "0" THEN StripZeros(SubSeq(d, 1, Len(d) - 1))
    ELSE d

\* fmt.Sprintf("%g", val) of an unsigned integer of at most 15 digits, given
\* by its digits: the digits when the decimal exponent is below 6, else the
\* shortest mantissa and a two-digit exponent (1000000 is 1e+06)
FormatG(val) ==
    IF Len(val) <= 6 THEN val
    ELSE LET m == StripZeros(val)
             e == Len(val) - 1
         IN <<m[1]>> \o (IF Len(m) > 1 THEN <<".">> \o Tail(m) ELSE <<>>)
                \o <<"e", "+", DigitOf(e \div 10), DigitOf(e % 10)>>

\* a faulty variant: a member of an object is added under its own key
RECURSIVE addValuesUnderMemberKey(_, _, _)
addValuesUnderMemberKey(values, key, vals) ==
    CASE TypeOf(vals) = "bool" ->
           {[values |-> Add(values, key,
                            IF ValueOf(vals) THEN <<"t", "r", "u", "e">>
                            ELSE <<"f", "a", "l", "s", "e">>),
             log |-> <<>>]}
      [] TypeOf(vals) = "string" ->
           {[values |-> Add(values, key, ValueOf(vals)), log |-> <<>>]}
      [] TypeOf(vals) = "float64" ->
           {[values |-> Add(values, key, FormatG(ValueOf(vals))), log |-> <<>>]}
      [] TypeOf(vals) = "map" ->
           LET F[i \in 0..Cardinality(DOMAIN ValueOf(vals))] ==
                   [o \in Orders(ValueOf(vals)) |->
                       IF i = 0 THEN values
                       ELSE Add(F[i - 1][o], o[i], o[i])]
           IN {[values |-> F[Cardinality(DOMAIN ValueOf(vals))][o], log |-> <<>>] :
                  o \in Orders(ValueOf(vals))}
      [] TypeOf(vals) = "[]interface{}" ->
           LET F[i \in 0..Len(ValueOf(vals))] ==
                   IF i = 0 THEN {[values |-> values, log |-> <<>>]}
                   ELSE UNION {{[values |-> n.values, log |-> r.log \o n.log] :
                                   n \in addValuesUnderMemberKey(r.values, key,
                                                                 ValueOf(vals)[i])} :
                               r \in F[i - 1]}
           IN F[Len(ValueOf(vals))]
      [] OTHER ->
           {[values |-> values,
             log |-> <<LogEntry("unknown type: ", <<TypeOf(vals)>>)>>]}

\* addValues: the set of outcomes (one per order in which the members of
\* an object may be visited), each the url.Values afterwards and what was
\* logged
RECURSIVE addValues(_, _, _)
addValues(values, key, vals) ==
    CASE TypeOf(vals) = "bool" ->
           {[values |-> Add(values, key,
                            IF ValueOf(vals) THEN <<"t", "r", "u", "e">>
                            ELSE <<"f", "a", "l", "s", "e">>),
             log |-> <<>>]}
      [] TypeOf(vals) = "string" ->
           {[values |-> Add(values, key, ValueOf(vals)), log |-> <<>>]}
      [] TypeOf(vals) = "float64" ->
           {[values |-> Add(values, key, FormatG(ValueOf(vals))), log |-> <<>>]}
      [] TypeOf(vals) = "map" ->
           LET F[i \in 0..Cardinality(DOMAIN ValueOf(vals))] ==
                   [o \in Orders(ValueOf(vals)) |->
                       IF i = 0 THEN values
                       ELSE Add(F[i - 1][o], key, o[i])]
           IN {[values |-> F[Cardinality(DOMAIN ValueOf(vals))][o], log |-> <<>>] :
                  o \in Orders(ValueOf(vals))}
      [] TypeOf(vals) = "[]interface{}" ->
           LET F[i \in 0..Len(ValueOf(vals))] ==
                   IF i = 0 THEN {[values |-> values, log |-> <<>>]}
                   ELSE UNION {{[values |-> n.values, log |-> r.log \o n.log] :
                                   n \in addValues(r.values, key, ValueOf(vals)[i])} :
                               r \in F[i - 1]}
           IN F[Len(ValueOf(vals))]
      [] OTHER ->
           {[values |-> values,
             log |-> <<LogEntry("unknown type: ", <<TypeOf(vals)>>)>>]}

\* for k, v := range bodyparams { addValues(values, k, v) }
allValues(params) ==
    LET n == Cardinality(DOMAIN params)
        F[i \in 0..n] ==
            [o \in Orders(params) |->
                IF i = 0 THEN {[values |-> EmptyMap, log |-> <<>>]}
                ELSE UNION {{[values |-> x.values, log |-> r.log \o x.log] :
                                x \in addValues(r.values, o[i], params[o[i]])} :
                            r \in F[i - 1][o]}]
    IN UNION {F[n][o] : o \in Orders(params)}

\* ----------------------------------------------------------------- main
GET == <<"G", "E", "T">>
POST == <<"P", "O", "S", "T">>
PUT == <<"P", "U", "T">>

\* the method names of the switch on args[0]
Methods ==
    {GET, <<"H", "E", "A", "D">>, POST, PUT,
     <<"D", "E", "L", "E", "T", "E">>, <<"P", "U", "R", "G", "E">>,
     <<"T", "R", "A", "C", "E">>, <<"O", "P", "T", "I", "O", "N", "S">>,
     <<"C", "O", "N", "N", "E", "C", "T">>, <<"P", "A", "T", "C", "H">>}

NoHeader == [ContentType |-> <<>>, ContentLength |-> <<>>]

NoPayload == <<>>

\* a body: which encoding produced it and what it was produced from
Payload(enc, file, files, fields, params) ==
    <<[enc |-> enc, file |-> file, files |-> files, fields |-> fields,
       params |-> params]>>

\* the bytes of the file at path, as a string
FileContent(path) == <<"#">> \o path

\* log.Fatal: the message is logged and the process exits with status 1
Fatal(entry) ==
    /\ logged' = Append(logged, entry)
    /\ exitCode' = <<1>>
    /\ pc' = "exited"

\* lines 193-256: the flags are normalised, the method and the URL are taken
\* off the arguments, the request is created and parseArgs is called
Setup ==
    /\ pc = "main"
    /\ flag' = IF flag.rawOutput
                 THEN [flag EXCEPT !.onlyHeaders = FALSE, !.onlyBody = TRUE]
                 ELSE flag
    /\ LET named == argv[1] \in Methods
           rest == IF named THEN Tail(argv) ELSE argv
       IN /\ methodProvided' = (flag.postform \/ named)
          /\ method' = IF named THEN argv[1]
                       ELSE IF flag.postform THEN POST ELSE GET
          /\ args' = Tail(rest)
    /\ pi' = 0
    /\ kvp' = NewKvpairs
    /\ heap' = <<>>
    /\ ret' = NoResult
    /\ pc' = "parseArgs"
    /\ UNCHANGED <<kvvars, argv, rawQuery, bodyparams, postFiles,
                   rawBodyFilename, body, header, opened, logged, sent, response, shown, exitCode>>

\* lines 256-259
CheckArgs ==
    /\ pc = "parseArgsDone"
    /\ IF ret[1].err # <<>>
         THEN Fatal(ret[1].err[1])
         ELSE /\ pc' = "params"
              /\ UNCHANGED <<logged, exitCode>>
    /\ UNCHANGED <<kvvars, parsevars, argv, flag, method, methodProvided,
                   rawQuery, bodyparams, postFiles, rawBodyFilename, body, header,
                   opened, sent, response, shown>>

\* lines 276-282: bodyparams from kvp.body
BodyValue(v) == IF Len(v) = 1 THEN Str(v[1]) ELSE Val("[]string", v)

\* lines 261-301
BuildParams ==
    /\ pc = "params"
    /\ LET k0 == ret[1].kvp[1]
           fromBody == [k \in DOMAIN k0.body |->
                           BodyValue(Elems(heap, k0.body[k]))]
           bad == {k \in DOMAIN k0.js : jsonUnmarshal(k0.js[k]) = <<>>}
           merged == [k \in (DOMAIN fromBody) \cup (DOMAIN k0.js) |->
                         IF k \in DOMAIN k0.js
                           THEN jsonUnmarshal(k0.js[k])[1]
                           ELSE fromBody[k]]
       IN /\ rawQuery' = [k \in DOMAIN k0.query |-> Elems(heap, k0.query[k])]
          /\ IF bad # {}
            THEN /\ \E k \in bad : Fatal(LogEntry("invalid json: ", k0.js[k]))
                 /\ UNCHANGED <<bodyparams, postFiles, rawBodyFilename>>
            ELSE /\ bodyparams' = merged
                 /\ postFiles' = (DOMAIN k0.file # {} /\ <<"-">> \notin DOMAIN k0.file)
                 /\ rawBodyFilename' = IF <<"-">> \in DOMAIN k0.file
                                         THEN k0.file[<<"-">>] ELSE <<>>
                 /\ pc' = "assemble"
                 /\ UNCHANGED <<logged, exitCode>>
    /\ UNCHANGED <<kvvars, parsevars, argv, flag, method, methodProvided, body,
                   header, opened, sent, response, shown>>

\* ------------------------------------------------------ body assembly
\* what os.Open and the read of the file at path may do; no file has the
\* empty path
FileOutcomes(path) == IF path = <<>> THEN {"open"} ELSE {"ok", "open", "read"}

\* the runs of a loop `for k, v := range file` that opens and reads each
\* file and stops at the first failure: the files visited, in order, each
\* with its outcome
FileRuns(file) ==
    LET n == Cardinality(DOMAIN file)
        run(o, m, last) ==
            [i \in 1..m |-> [key |-> o[i], path |-> file[o[i]],
                             result |-> IF i < m THEN "ok" ELSE last]]
    IN IF n = 0 THEN {<<>>}
       ELSE {r \in {run(o, m, last) : o \in Orders(file), m \in 1..n,
                                      last \in {"ok", "open", "read"}} :
                /\ \A i \in 1..Len(r) : r[i].result \in FileOutcomes(r[i].path)
                /\ r[Len(r)].result = "ok" => Len(r) = n}

Failed(r) == r # <<>> /\ r[Len(r)].result # "ok"

Opened(r) == [i \in 1..Len(r) |-> [path |-> r[i].path, result |-> r[i].result]]

\* a faulty variant: POST whenever no method was provided, body or not
FinalMethodWithoutBody(b, provided, m) == IF ~provided THEN POST ELSE m

\* a faulty variant: POST replaces GET whenever there is a body
FinalMethodOverGet(b, provided, m) == IF b # NoPayload /\ m = GET THEN POST ELSE m

\* lines 400-406: req.Method once the body b is known, m being the method
\* the request was created with
FinalMethod(b, provided, m) == IF b # NoPayload /\ ~provided THEN POST ELSE m

\* lines 400-407 and the end of an assembly branch: b is the body, ctype the
\* Content-Type the branch set
Complete(b, ctype) ==
    /\ body' = b
    /\ header' = IF b # NoPayload
                   THEN [ContentType |-> ctype,
                         ContentLength |-> <<[lenOf |-> b[1]]>>]
                   ELSE header
    /\ method' = FinalMethod(b, methodProvided, method)
    /\ pc' = "send"
    /\ exitCode' = exitCode

\* a branch ends in log.Fatal
Abort(entry) ==
    /\ Fatal(entry)
    /\ UNCHANGED <<body, header, method>>

\* a faulty variant: -m is not consulted
MultipartBranchAlways(files, m) == files

\* line 329: postFiles && *useMultipart
MultipartBranch(files, m) == files /\ m

\* lines 307-327: the raw body
AssembleRawFile ==
    /\ pc = "assemble"
    /\ rawBodyFilename # <<>>
    /\ IF Cardinality(DOMAIN ret[1].kvp[1].file) > 1
         THEN /\ Abort(LogEntry(
                     "only one input file allowed when setting raw body", <<>>))
              /\ UNCHANGED opened
         ELSE LET warned ==
                      IF DOMAIN bodyparams # {}
                        THEN Append(logged, LogEntry(
                            "extra body parameters ignored when setting raw body",
                            <<>>))
                        ELSE logged
              IN \E res \in FileOutcomes(rawBodyFilename) :
                   /\ opened' = Append(opened, [path |-> rawBodyFilename,
                                                result |-> res])
                   /\ CASE res = "open" ->
                             /\ logged' = Append(warned, LogEntry(
                                    "unable to open file for body: ",
                                    rawBodyFilename))
                             /\ exitCode' = <<1>>
                             /\ pc' = "exited"
                             /\ UNCHANGED <<body, header, method>>
                        [] res = "read" ->
                             /\ logged' = Append(warned, LogEntry(
                                    "error reading body contents: ",
                                    rawBodyFilename))
                             /\ exitCode' = <<1>>
                             /\ pc' = "exited"
                             /\ UNCHANGED <<body, header, method>>
                        [] res = "ok" ->
                             /\ logged' = warned
                             /\ Complete(Payload("RawFile", rawBodyFilename,
                                                 EmptyMap, EmptyMap, EmptyMap),
                                         <<"application/octet-stream">>)
    /\ UNCHANGED <<kvvars, parsevars, argv, flag, methodProvided, rawQuery,
                   bodyparams, postFiles, rawBodyFilename, sent, response,
                   shown>>

\* lines 329-367: the files as the parts of a multipart form, the body
\* parameters as its fields
AssembleMultipart ==
    /\ pc = "assemble"
    /\ rawBodyFilename = <<>>
    /\ MultipartBranch(postFiles, flag.useMultipart)
    /\ \E r \in FileRuns(ret[1].kvp[1].file) :
         /\ opened' = opened \o Opened(r)
         /\ IF Failed(r)
              THEN Abort(LogEntry(IF r[Len(r)].result = "open"
                                    THEN "unable to open file: "
                                    ELSE "unable to write file: ",
                                  r[Len(r)].path))
              ELSE \E x \in allValues(bodyparams) :
                     /\ logged' = logged \o x.log
                     /\ Complete(Payload("Multipart", <<>>, ret[1].kvp[1].file,
                                         x.values, EmptyMap),
                                 <<"multipart/form-data">>)
    /\ UNCHANGED <<kvvars, parsevars, argv, flag, methodProvided, rawQuery,
                   bodyparams, postFiles, rawBodyFilename, sent, response,
                   shown>>

\* lines 369-398: the files become body parameters, and the parameters are
\* sent as a form (-f) or as JSON
AssembleParams ==
    /\ pc = "assemble"
    /\ rawBodyFilename = <<>>
    /\ ~MultipartBranch(postFiles, flag.useMultipart)
    /\ DOMAIN bodyparams # {} \/ DOMAIN ret[1].kvp[1].file # {}
    /\ \E r \in FileRuns(ret[1].kvp[1].file) :
         /\ opened' = opened \o Opened(r)
         /\ LET file == ret[1].kvp[1].file
                read == {r[i].key : i \in {j \in 1..Len(r) : r[j].result = "ok"}}
                params == [k \in (DOMAIN bodyparams) \cup read |->
                              IF k \in read THEN Str(FileContent(file[k]))
                              ELSE bodyparams[k]]
            IN /\ bodyparams' = params
               /\ IF Failed(r)
                    THEN Abort(LogEntry(IF r[Len(r)].result = "open"
                                          THEN "unable to open file for body: "
                                          ELSE "error reading body contents: ",
                                        r[Len(r)].path))
                    ELSE IF flag.postform
                      THEN \E x \in allValues(params) :
                             /\ logged' = logged \o x.log
                             /\ Complete(Payload("UrlEncoded", <<>>, EmptyMap,
                                                 x.values, EmptyMap),
                                 <<"application/x-www-form-urlencoded">>)
                      ELSE /\ logged' = logged
                           /\ Complete(Payload("Json", <<>>, EmptyMap, EmptyMap,
                                               params),
                                       <<"application/json">>)
    /\ UNCHANGED <<kvvars, parsevars, argv, flag, methodProvided, rawQuery,
                   postFiles, rawBodyFilename, sent, response, shown>>

\* no branch of lines 307-398 is taken: body stays nil
AssembleNothing ==
    /\ pc = "assemble"
    /\ rawBodyFilename = <<>>
    /\ ~MultipartBranch(postFiles, flag.useMultipart)
    /\ ~(DOMAIN bodyparams # {} \/ DOMAIN ret[1].kvp[1].file # {})
    /\ Complete(NoPayload, <<>>)
    /\ UNCHANGED <<kvvars, parsevars, argv, flag, methodProvided, rawQuery,
                   bodyparams, postFiles, rawBodyFilename, opened, logged,
                   sent, response, shown>>

\* ------------------------------------------------ request and response
Statuses == {200, 399, 400, 404}

\* lines 409-433: the request is sent; the transport fails or a response
\* comes back
Send ==
    /\ pc = "send"
    /\ sent' = TRUE
    /\ \/ /\ Fatal(LogEntry("error during fetch:", <<>>))
          /\ UNCHANGED response
       \/ /\ \E code \in Statuses : response' = <<[StatusCode |-> code]>>
          /\ pc' = "render"
          /\ UNCHANGED <<logged, exitCode>>
    /\ UNCHANGED <<kvvars, parsevars, argv, flag, method, methodProvided,
                   rawQuery, bodyparams, postFiles, rawBodyFilename, body,
                   header, opened, shown>>

\* lines 435-486: the response is printed
Render ==
    /\ pc = "render"
    /\ shown' = [headers |-> ~flag.onlyBody, body |-> ~flag.onlyHeaders]
    /\ pc' = "status"
    /\ UNCHANGED <<kvvars, parsevars, argv, flag, method, methodProvided,
                   rawQuery, bodyparams, postFiles, rawBodyFilename, body,
                   header, opened, logged, sent, response, exitCode>>

\* a faulty variant: 400 itself is not an error status
ExitStatusAbove(code) == IF code > 400 THEN code - 399 ELSE 0

\* lines 488-491: os.Exit(response.StatusCode - 399), or main returns (0)
ExitStatus(code) == IF code >= 400 THEN code - 399 ELSE 0

Exit ==
    /\ pc = "status"
    /\ exitCode' = <<ExitStatus(response[1].StatusCode)>>
    /\ pc' = "exited"
    /\ UNCHANGED <<kvvars, parsevars, argv, flag, method, methodProvided,
                   rawQuery, bodyparams, postFiles, rawBodyFilename, body,
                   header, opened, logged, sent, response, shown>>

\* ------------------------------------------------------------ printJSON
\* strconv.Quote of printable ASCII: the text between double quotes, a
\* double quote and a backslash each behind a backslash
RECURSIVE QuoteBody(_)
QuoteBody(s) ==
    IF s = <<>> THEN <<>>
    ELSE (IF Head(s) \in {"\"", BS} THEN <<BS, Head(s)>> ELSE <<Head(s)>>)
             \o QuoteBody(Tail(s))

Quote(s) == <<"\"">> \o QuoteBody(s) \o <<"\"">>

\* the byte of a character of a key
Byte(c) == CASE c = "a" -> 97 [] c = "b" -> 98

\* s < t of two Go strings: bytewise
RECURSIVE StrLess(_, _)
StrLess(s, t) ==
    IF t = <<>> THEN FALSE
    ELSE IF s = <<>> THEN TRUE
    ELSE IF Head(s) = Head(t) THEN StrLess(Tail(s), Tail(t))
    ELSE Byte(Head(s)) < Byte(Head(t))

RECURSIVE Insert(_, _)
Insert(sorted, x) ==
    IF sorted = <<>> THEN <<x>>
    ELSE IF StrLess(x, Head(sorted)) THEN <<x>> \o sorted
    ELSE <<Head(sorted)>> \o Insert(Tail(sorted), x)

\* a faulty variant: the keys stay in the order `range` visited them
SortStringsAsVisited(keys) == keys

\* sort.Strings(keys): of fewer than 12 strings, an insertion sort
RECURSIVE SortStrings(_)
SortStrings(keys) ==
    IF keys = <<>> THEN <<>>
    ELSE Insert(SortStrings(SubSeq(keys, 1, Len(keys) - 1)), keys[Len(keys)])

\* for i := 0; i < n; i++ { fmt.Print("    ") }
Indent(n) == [i \in 1..(4 * n) |-> " "]

\* a faulty variant: the closing bracket is indented as the members are
ClosingIndentAsMembers(depth) == Indent(depth)

\* lines 550-552 and 577-579: the indentation of the closing bracket
ClosingIndent(depth) == Indent(depth - 1)

\* printJSON: the set of texts it may print, one per order in which `range`
\* may visit the keys of each object; the colour changes around the scalars
\* are left out
RECURSIVE printJSON(_, _, _)
printJSON(depth, val, isKey) ==
    CASE TypeOf(val) = "nil" -> {<<"n", "u", "l", "l">>}
      [] TypeOf(val) = "bool" ->
           {IF ValueOf(val) THEN <<"t", "r", "u", "e">> ELSE <<"f", "a", "l", "s", "e">>}
      [] TypeOf(val) = "string" -> {Quote(ValueOf(val))}
      [] TypeOf(val) = "json.Number" -> {ValueOf(val)}
      [] TypeOf(val) = "map" ->
           IF Cardinality(DOMAIN ValueOf(val)) = 0 THEN {<<"{", "}">>}
           ELSE LET n == Cardinality(DOMAIN ValueOf(val))
                    printed(keys) ==
                        LET F[i \in 0..n] ==
                                IF i = 0 THEN {<<"{", "\n">>}
                                ELSE {p \o (IF i > 1 THEN <<",", "\n">> ELSE <<>>)
                                        \o Indent(depth) \o k \o <<":", " ">> \o v :
                                      p \in F[i - 1],
                                      k \in printJSON(depth + 1, Str(keys[i]), TRUE),
                                      v \in printJSON(depth + 1, ValueOf(val)[keys[i]],
                                                      FALSE)}
                        IN {p \o <<"\n">> \o ClosingIndent(depth) \o <<"}">> :
                               p \in F[n]}
                IN UNION {printed(SortStrings(h)) : h \in Orders(ValueOf(val))}
      [] TypeOf(val) = "[]interface{}" ->
           IF Len(ValueOf(val)) = 0 THEN {<<"[", "]">>}
           ELSE LET F[i \in 0..Len(ValueOf(val))] ==
                        IF i = 0 THEN {<<"[", "\n">>}
                        ELSE {p \o (IF i > 1 THEN <<",", "\n">> ELSE <<>>)
                                \o Indent(depth) \o e :
                              p \in F[i - 1],
                              e \in printJSON(depth + 1, ValueOf(val)[i], FALSE)}
                IN {p \o <<"\n">> \o ClosingIndent(depth) \o <<"]">> :
                       p \in F[Len(ValueOf(val))]}
      [] OTHER -> {<<"unknown type:", " ", TypeOf(val), "\n">>}

\* --------------------------------------------------------- the inputs
\* the key/value arguments of the runs of main
ArgPool ==
    {<<"a", "=", "b">>,             \* Body
     <<"a", "=", "=", "b">>,        \* Query
     <<"a", ":", "=", "1">>,        \* Json
     <<"a", ":", "=", "x">>,        \* Json, malformed
     <<"h", ":", "v">>,             \* Header
     <<"-", "@", "f">>,             \* File, the raw body
     <<"-", "@">>,                  \* File, the raw body, empty path
     <<"u", "@", "g">>,             \* File, an upload
     <<"z">>}                       \* Unknown

URL == <<"u">>

SeqsUpTo(S, n) == UNION {[1..m -> S] : m \in 0..n}

Flags ==
    [postform : BOOLEAN, onlyHeaders : BOOLEAN, onlyBody : BOOLEAN,
     rawOutput : BOOLEAN, useMultipart : BOOLEAN]

NoFlags ==
    [postform |-> FALSE, onlyHeaders |-> FALSE, onlyBody |-> FALSE,
     rawOutput |-> FALSE, useMultipart |-> TRUE]

IdleJSON ==
    /\ jsVal = <<>>
    /\ jsOut = <<>>
    /\ avIn = NoResult
    /\ avOut = NoResult

IdleKV ==
    /\ kvIn = <<>>
    /\ kvOut = NoResult
    /\ unOut = NoResult
    /\ IdleJSON

\* main before it ran, apart from argv and flag
IdleMain ==
    /\ method = GET
    /\ methodProvided = FALSE
    /\ rawQuery = EmptyMap
    /\ bodyparams = EmptyMap
    /\ postFiles = FALSE
    /\ rawBodyFilename = <<>>
    /\ body = NoPayload
    /\ header = NoHeader
    /\ opened = <<>>
    /\ logged = <<>>
    /\ sent = FALSE
    /\ response = <<>>
    /\ shown = [headers |-> FALSE, body |-> FALSE]
    /\ exitCode = <<>>

\* ------------------------------------------------- Spec: a run of main
Init ==
    /\ IdleKV
    /\ \E m \in {<<>>, <<GET>>, <<PUT>>}, a \in SeqsUpTo(ArgPool, MaxArgs) :
           argv = m \o <<URL>> \o a
    /\ flag \in Flags
    /\ pc = "main"
    /\ ParseArgsEntry(<<>>)
    /\ IdleMain

Next ==
    \/ Setup
    \/ ParseArg
    \/ ParseArgsReturn
    \/ CheckArgs
    \/ BuildParams
    \/ AssembleRawFile
    \/ AssembleMultipart
    \/ AssembleParams
    \/ AssembleNothing
    \/ Send
    \/ Render
    \/ Exit

Spec == Init /\ [][Next]_vars

\* ------------------------------------ SpecArgs: parseArgs on its own
ArgPoolP ==
    {<<"a", "=", "b">>, <<"a", "=", "c">>,
     <<"a", "=", "=", "b">>, <<"a", "=", "=", "c">>,
     <<"b", "=", "c">>,
     <<"h", ":", "v">>,
     <<"z">>, <<"y">>}

InitArgs ==
    /\ IdleKV
    /\ argv = <<>>
    /\ flag = NoFlags
    /\ pc = "parseArgs"
    /\ \E a \in SeqsUpTo(ArgPoolP, MaxArgsP) : ParseArgsEntry(a)
    /\ IdleMain

NextArgs == ParseArg \/ ParseArgsReturn

SpecArgs == InitArgs /\ [][NextArgs]_vars

\* ------------------------------------------- SpecKV: the pure functions
KVChars == {"a", BS, ":", "=", "@"}

KVStrings == UNION {[1..n -> KVChars] : n \in 0..MaxLen}

InitKV ==
    /\ kvIn \in KVStrings
    /\ kvOut = NoResult
    /\ unOut = NoResult
    /\ IdleJSON
    /\ argv = <<>>
    /\ flag = NoFlags
    /\ pc = "idle"
    /\ ParseArgsEntry(<<>>)
    /\ IdleMain

CallParseKeyValue ==
    /\ kvOut = NoResult
    /\ kvOut' = <<parseKeyValue(kvIn)>>
    /\ UNCHANGED <<kvIn, unOut, jsonvars, pc, parsevars, mainvars>>

CallUnescape ==
    /\ unOut = NoResult
    /\ unOut' = <<unescape(kvIn)>>
    /\ UNCHANGED <<kvIn, kvOut, jsonvars, pc, parsevars, mainvars>>

NextKV == CallParseKeyValue \/ CallUnescape

SpecKV == InitKV /\ [][NextKV]_vars

\* ------------------------------- SpecJSON: printJSON and addValues alone
\* the containers whose members are in E: the objects over the keys K and
\* the arrays of at most MaxElems elements
Objects(E, K) == UNION {[D -> E] : D \in SUBSET K}

Arrays(E) == UNION {[1..n -> E] : n \in 0..MaxElems}

Containers(E, K) ==
    {Val("map", m) : m \in Objects(E, K)}
        \cup {Val("[]interface{}", a) : a \in Arrays(E)}

JsKeys == {<<"a">>, <<"b">>, <<"a", "b">>}

\* what json.Decoder with UseNumber decodes a response to
Leaves ==
    {Val("nil", <<>>), Val("bool", TRUE), Str(<<"b", "\"">>),
     Val("json.Number", <<"1">>)}

Responses ==
    LET few == {Val("json.Number", <<"1">>), Str(<<"a">>)}
        flat == Containers(few, {<<"b">>, <<"a">>})
    IN Leaves \cup Containers(Leaves, JsKeys)
              \cup Containers(few \cup flat, {<<"b">>, <<"a">>})

\* what main makes a body parameter of: a string or a []string of a Body
\* token, what json.Unmarshal decodes a Json token to
ParamLeaves ==
    {Val("nil", <<>>), Val("bool", TRUE), Val("bool", FALSE), Str(<<"s">>),
     Val("float64", <<"1", "2">>),
     Val("float64", <<"1", "2", "0", "0", "0", "0", "0">>),
     Val("[]string", <<<<"x">>, <<"y">>>>)}

Params ==
    LET few == {Val("nil", <<>>), Val("float64", <<"1", "2">>)}
        flat == Containers(few, {<<"b">>, <<"a">>})
    IN ParamLeaves \cup Containers(ParamLeaves, {<<"b">>, <<"a">>})
                   \cup Containers(few \cup flat, {<<"a">>})

\* the url.Values addValues starts from, and the key
AvInputs ==
    [values : {EmptyMap, (<<"k">> :> <<<<"v">>>>), (<<"a">> :> <<<<"v">>>>)},
     key : {<<"k">>}]

InitJSON ==
    /\ kvIn = <<>>
    /\ kvOut = NoResult
    /\ unOut = NoResult
    /\ \/ /\ jsVal \in Responses
          /\ avIn = NoResult
       \/ /\ jsVal \in Params
          /\ avIn \in {<<x>> : x \in AvInputs}
    /\ jsOut = <<>>
    /\ avOut = NoResult
    /\ argv = <<>>
    /\ flag = NoFlags
    /\ pc = "idle"
    /\ ParseArgsEntry(<<>>)
    /\ IdleMain

\* line 467: printJSON(1, j, false); the same value is printed twice
CallPrintJSON ==
    /\ avIn = NoResult
    /\ Len(jsOut) < 2
    /\ \E text \in printJSON(1, jsVal, FALSE) : jsOut' = Append(jsOut, text)
    /\ UNCHANGED <<kvIn, kvOut, unOut, jsVal, avIn, avOut, pc, parsevars,
                   mainvars>>

\* lines 354 and 388: addValues(values, k, v)
CallAddValues ==
    /\ avIn # NoResult
    /\ avOut = NoResult
    /\ \E x \in addValues(avIn[1].values, avIn[1].key, jsVal) : avOut' = <<x>>
    /\ UNCHANGED <<kvIn, kvOut, unOut, jsVal, jsOut, avIn, pc, parsevars,
                   mainvars>>

NextJSON == CallPrintJSON \/ CallAddValues

SpecJSON == InitJSON /\ [][NextJSON]_vars

\* ------------------------------------------------ reference definitions
\* the number of consecutive backslashes immediately before position i
BackslashRun(s, i) ==
    Cardinality({j \in 1..(i - 1) : \A m \in j..(i - 1) : s[m] = BS})

\* position i of s is preceded by an escaping backslash
Escaped(s, i) == BackslashRun(s, i) % 2 = 1

IsSplit(s, i) == s[i] \in {":", "=", "@"} /\ ~Escaped(s, i)

\* the first unescaped delimiter of s, 0 when there is none
FirstSplit(s) ==
    IF \E i \in 1..Len(s) : IsSplit(s, i)
      THEN CHOOSE i \in 1..Len(s) :
               IsSplit(s, i) /\ \A j \in 1..(i - 1) : ~IsSplit(s, j)
      ELSE 0

\* s without its escaping backslashes
RECURSIVE KeepFrom(_, _)
KeepFrom(s, i) ==
    IF i > Len(s) THEN <<>>
    ELSE IF s[i] = BS /\ ~Escaped(s, i) THEN KeepFrom(s, i + 1)
    ELSE <<s[i]>> \o KeepFrom(s, i + 1)

Decoded(s) == KeepFrom(s, 1)

\* the kind and the width of the delimiter at split point p of s
DelimAt(s, p) ==
    LET two == p < Len(s) /\ s[p + 1] = "=" IN
    IF s[p] = ":" THEN (IF two THEN <<kvpJSON, 2>> ELSE <<kvpHeader, 1>>)
    ELSE IF s[p] = "=" THEN (IF two THEN <<kvpQuery, 2>> ELSE <<kvpBody, 1>>)
    ELSE <<kvpFile, 1>>

\* C1: parseKeyValue splits its argument at the first delimiter character
\* (':', '=' or '@') that no backslash escapes; the kind is Json for ':=',
\* Header for ':', Query for '==', Body for '=' and File for '@'; Key is the
\* escape-decoded text before the delimiter and Value the escape-decoded
\* text after it; an argument with no unescaped delimiter yields Unknown.
C1_SplitAtFirstUnescaped ==
    kvOut # NoResult =>
        LET p == FirstSplit(kvIn) IN
        IF p = 0 THEN kvOut[1].t = kvpUnknown
        ELSE LET d == DelimAt(kvIn, p) IN
             /\ kvOut[1].t = d[1]
             /\ kvOut[1].k = Decoded(SubSeq(kvIn, 1, p - 1))
             /\ kvOut[1].v = Decoded(SubSeq(kvIn, p + d[2], Len(kvIn)))

\* "a\:=a" has been classified: Body, key "a:", value "a"
C1_Witness ==
    /\ kvIn = <<"a", BS, ":", "=", "a">>
    /\ kvOut = <<KV(kvpBody, <<"a", ":">>, <<"a">>)>>

\* ------------------------------------------------------------- parseArgs
\* the values of the tokens of the given kind and key among the first n
\* arguments, in argument order
RECURSIVE TokenValues(_, _, _, _)
TokenValues(a, n, kind, key) ==
    IF n = 0 THEN <<>>
    ELSE LET r == parseKeyValue(a[n]) IN
         TokenValues(a, n - 1, kind, key)
             \o (IF r.t = kind /\ r.k = key THEN <<r.v>> ELSE <<>>)

TokenKeys(a, kind) ==
    {parseKeyValue(a[i]).k : i \in {j \in 1..Len(a) : parseKeyValue(a[j]).t = kind}}

Returned == ret # NoResult

Succeeded == Returned /\ ret[1].err = <<>>

\* the []string lists of a facet of the bundle returned
Lists(facet) == [k \in DOMAIN facet |-> Elems(heap, facet[k])]

Expected(kind) ==
    [k \in TokenKeys(args, kind) |-> TokenValues(args, Len(args), kind, k)]

\* C2: after parseArgs succeeds, query[k] is exactly the values of the
\* Query tokens with key k, in argument order, and body[k] exactly the
\* values of the Body tokens with key k, in argument order.
C2_ListsAreTheTokens ==
    Succeeded =>
        /\ Lists(ret[1].kvp[1].query) = Expected(kvpQuery)
        /\ Lists(ret[1].kvp[1].body) = Expected(kvpBody)

UnknownAt(a) == {i \in 1..Len(a) : parseKeyValue(a[i]).t = kvpUnknown}

FirstUnknown(a) == CHOOSE i \in UnknownAt(a) : \A j \in UnknownAt(a) : i <= j

\* every token is entered in the bundle under its kind and key: a header, a
\* JSON fragment and a file hold the value of the last token of that key, a
\* query or body key holds a list that is not empty
Entered(a, b) ==
    \A i \in 1..Len(a) :
        LET r == parseKeyValue(a[i])
            last == \A j \in (i + 1)..Len(a) :
                        ~(parseKeyValue(a[j]).t = r.t /\ parseKeyValue(a[j]).k = r.k)
            list(facet) == /\ r.k \in DOMAIN facet
                           /\ facet[r.k].len >= 1
            single(facet) == /\ r.k \in DOMAIN facet
                             /\ (last => facet[r.k] = r.v)
        IN CASE r.t = kvpHeader -> single(b.headers)
             [] r.t = kvpQuery -> list(b.query)
             [] r.t = kvpBody -> list(b.body)
             [] r.t = kvpJSON -> single(b.js)
             [] r.t = kvpFile -> single(b.file)
             [] OTHER -> FALSE

\* C8: parseArgs is all-or-nothing. With an Unknown argument it returns no
\* bundle and an error naming the first such argument, however many valid
\* tokens came before; without one it returns no error and a bundle in which
\* every argument has been entered under its kind and key (what the query
\* and body lists hold is the matter of C2).
C8_AllOrNothing ==
    Returned =>
        IF UnknownAt(args) # {}
          THEN /\ ret[1].kvp = <<>>
               /\ ret[1].err =
                      <<LogEntry("bad key/value: ", args[FirstUnknown(args)])>>
          ELSE /\ ret[1].err = <<>>
               /\ ret[1].kvp # <<>>
               /\ pi = Len(args)
               /\ Entered(args, ret[1].kvp[1])

\* parseArgs failed on its fifth argument, after four valid tokens
C8_Witness ==
    /\ Returned
    /\ Len(args) = 5
    /\ UnknownAt(args) = {5}
    /\ ret[1].kvp = <<>>
    /\ ret[1].err # <<>>

\* ------------------------------------------------------------------ main
Bundle == ret[1].kvp[1]

Files == DOMAIN Bundle.file

Dash == <<"-">>

\* the command line named a method
Named == argv[1] \in Methods

LastLogged == IF logged = <<>> THEN "" ELSE logged[Len(logged)].msg

\* body assembly is over and the request is ready, or was sent
Assembled == pc \in {"send", "render", "status"} \/ (pc = "exited" /\ sent)

\* body assembly has run, to its end or to a fatal error
AssemblyRan ==
    \/ Assembled
    \/ /\ pc = "exited"
       /\ Succeeded
       /\ LastLogged # "invalid json: "

HasParams == (DOMAIN Bundle.body) \cup (DOMAIN Bundle.js) # {}

Warning == LogEntry("extra body parameters ignored when setting raw body", <<>>)

\* C3: when "-" is the only file entry, body assembly takes the raw-body
\* path whatever the other inputs and flags are: that file is the one
\* opened, a body produced is its bytes with Content-Type
\* application/octet-stream and holds no parameter, and extra body
\* parameters produce the warning and nothing else (a fatal error is a
\* failure to open or read the file).
C3_RawBodyWhateverElse ==
    (Succeeded /\ Files = {Dash} /\ AssemblyRan) =>
        /\ opened # <<>>
        /\ opened[1].path = Bundle.file[Dash]
        /\ body # NoPayload =>
               /\ body[1].enc = "RawFile"
               /\ body[1].file = Bundle.file[Dash]
               /\ body[1].fields = EmptyMap /\ body[1].params = EmptyMap
               /\ header.ContentType = <<"application/octet-stream">>
        /\ HasParams => \E i \in 1..Len(logged) : logged[i] = Warning
        /\ (pc = "exited" /\ ~sent) =>
               LastLogged \in {"unable to open file for body: ",
                               "error reading body contents: "}

\* C4: when "-" comes with another file entry, body assembly aborts with the
\* fatal error about several input files: no file is opened, no body is
\* produced and no request is sent.
C4_SeveralFilesWithRawBody ==
    (Succeeded /\ Dash \in Files /\ Cardinality(Files) > 1) =>
        /\ opened = <<>>
        /\ body = NoPayload
        /\ ~sent
        /\ AssemblyRan =>
               /\ pc = "exited"
               /\ exitCode = <<1>>
               /\ LastLogged = "only one input file allowed when setting raw body"

\* the encoding the priority rule gives
Choice(b, f) ==
    IF Dash \in DOMAIN b.file THEN "RawFile"
    ELSE IF DOMAIN b.file # {} /\ f.useMultipart THEN "Multipart"
    ELSE IF f.postform THEN "UrlEncoded"
    ELSE "Json"

ContentTypeOf(enc) ==
    CASE enc = "RawFile" -> <<"application/octet-stream">>
      [] enc = "Multipart" -> <<"multipart/form-data">>
      [] enc = "UrlEncoded" -> <<"application/x-www-form-urlencoded">>
      [] enc = "Json" -> <<"application/json">>

\* C5: whenever body assembly completes for a bundle with a body or JSON
\* parameter or a file entry, the body has exactly the encoding that the
\* bundle and the flags -f and -m give by priority: RawFile if there is a "-"
\* file entry, else Multipart if there is a file entry and -m is on, else
\* UrlEncoded if -f is set, else Json; and the Content-Type is that of the
\* encoding.
C5_EncodingByPriority ==
    (Assembled /\ (HasParams \/ Files # {})) =>
        /\ body # NoPayload
        /\ body[1].enc = Choice(Bundle, flag)
        /\ header.ContentType = ContentTypeOf(body[1].enc)

\* a file entry, -m off and -f set: the body is a form
C5_Witness ==
    /\ Assembled
    /\ Files # {}
    /\ ~flag.useMultipart
    /\ flag.postform
    /\ body # NoPayload
    /\ body[1].enc = "UrlEncoded"

NoBodyTokens ==
    \A i \in 1..Len(args) :
        parseKeyValue(args[i]).t \notin {kvpBody, kvpJSON, kvpFile}

\* C6 as claimed: with no Body, Json or File token there is no body, body
\* assembly sets neither Content-Type nor Content-Length, and the method is
\* the method named on the command line, GET when none is named.
C6_NoBodyMeansGet ==
    (Assembled /\ NoBodyTokens) =>
        /\ body = NoPayload
        /\ header = NoHeader
        /\ method = IF Named THEN argv[1] ELSE GET

\* C6: with no Body, Json or File token there is no body, body assembly sets
\* neither Content-Type nor Content-Length, and the method is the method
\* named on the command line; when none is named it is POST if -f is set
\* and GET otherwise.
C6_NoBodyKeepsMethod ==
    (Assembled /\ NoBodyTokens) =>
        /\ body = NoPayload
        /\ header = NoHeader
        /\ method = IF Named THEN argv[1]
                    ELSE IF flag.postform THEN POST ELSE GET

\* a query parameter alone, -f set, no method named: POST without a body
C6_Witness ==
    /\ Assembled
    /\ NoBodyTokens
    /\ args = <<<<"a", "=", "=", "b">>>>
    /\ ~Named
    /\ flag.postform
    /\ body = NoPayload
    /\ method = POST

\* C7: a request with a body and no method named on the command line has
\* method POST; a request whose command line names a method has that
\* method, with or without a body, with or without -f.
C7_MethodOfTheRequest ==
    Assembled =>
        /\ (body # NoPayload /\ ~Named) => method = POST
        /\ Named => method = argv[1]

\* GET named, -f set and a body: the request is a GET
C7_Witness ==
    /\ sent
    /\ Named
    /\ argv[1] = GET
    /\ flag.postform
    /\ body # NoPayload
    /\ method = GET

BadJson(b) == {k \in DOMAIN b.js : jsonUnmarshal(b.js[k]) = <<>>}

FileFailed == \E i \in 1..Len(opened) : opened[i].result # "ok"

\* a construction-time error: an Unknown token, a malformed JSON fragment,
\* a file that cannot be opened or read, several files with a raw body
ConstructionError ==
    \/ UnknownAt(args) # {}
    \/ Succeeded /\ BadJson(Bundle) # {}
    \/ Succeeded /\ Dash \in Files /\ Cardinality(Files) > 1
    \/ FileFailed

\* C9: in a run with a construction-time error the request is never sent,
\* the process does not stop before it exits, and it exits with the status
\* of log.Fatal; a failure to open or read a file ends the process at once;
\* with a malformed JSON fragment no file is ever opened and no body built.
C9_ConstructionErrorsAreFatal ==
    /\ ConstructionError =>
           /\ ~sent
           /\ pc # "exited" => ENABLED Next
           /\ pc = "exited" => exitCode = <<1>>
    /\ FileFailed => pc = "exited"
    /\ (Succeeded /\ BadJson(Bundle) # {}) =>
           opened = <<>> /\ body = NoPayload

\* a malformed JSON fragment beside a file entry: fatal, the file untouched
C9_Witness ==
    /\ pc = "exited"
    /\ exitCode = <<1>>
    /\ Succeeded
    /\ BadJson(Bundle) # {}
    /\ Files # {}
    /\ LastLogged = "invalid json: "
    /\ opened = <<>>
    /\ ~sent

Received == response # <<>>

\* C10: a response received is printed before the process ends, the
\* headers unless -body (or -raw) is set and the body unless -headers is
\* set, whatever the status; the process then exits with 0 when the status
\* is below 400 and with status - 399 otherwise.
C10_RenderThenExitStatus ==
    Received =>
        /\ pc = "render" => exitCode = <<>>
        /\ pc \in {"status", "exited"} =>
               /\ shown.headers = ~(flag.onlyBody \/ flag.rawOutput)
               /\ shown.body = (~flag.onlyHeaders \/ flag.rawOutput)
        /\ pc = "status" => exitCode = <<>>
        /\ pc = "exited" =>
               exitCode = IF response[1].StatusCode < 400 THEN <<0>>
                          ELSE <<response[1].StatusCode - 399>>

\* a 404 has been printed, headers and body, and the process exited with 5
C10_Witness ==
    /\ pc = "exited"
    /\ Received
    /\ response[1].StatusCode = 404
    /\ shown = [headers |-> TRUE, body |-> TRUE]
    /\ exitCode = <<5>>

\* -------------------------------------------------------------- C11
Kinds == {kvpUnknown, kvpHeader, kvpQuery, kvpBody, kvpJSON, kvpFile}

\* s has no unescaped delimiter: it is empty, or all of it is key text
\* (a string that ends in an escaping backslash included)
NoSplit(s) == FirstSplit(s) = 0

\* the first unescaped delimiter of s is its last character
SplitIsLast(s) == FirstSplit(s) > 0 /\ FirstSplit(s) = Len(s)

\* C11: parseKeyValue returns for every string, the empty one, one ending in
\* ':' or '=' and one ending in a backslash included, and what it returns is
\* one of the six Kinds; when the first unescaped delimiter is a ':' or a '='
\* that ends the string, the token is a Header or a Body with an empty Value;
\* a string without an unescaped delimiter is Unknown.
C11_TotalAtTheEnd ==
    /\ kvOut = NoResult => ENABLED CallParseKeyValue
    /\ kvOut # NoResult =>
          /\ kvOut[1].t \in Kinds
          /\ NoSplit(kvIn) => kvOut[1].t = kvpUnknown
          /\ SplitIsLast(kvIn) /\ kvIn[Len(kvIn)] = ":" =>
                kvOut[1].t = kvpHeader /\ kvOut[1].v = <<>>
          /\ SplitIsLast(kvIn) /\ kvIn[Len(kvIn)] = "=" =>
                kvOut[1].t = kvpBody /\ kvOut[1].v = <<>>

C11_Witness ==
    /\ kvIn = <<"a", BS, ":", "=">>
    /\ kvOut = <<KV(kvpBody, <<"a", ":">>, <<>>)>>

\* -------------------------------------------------------------- C12
HasBackslash(s) == \E i \in 1..Len(s) : s[i] = BS

\* C12: unescape returns for every string; what it returns is the string
\* without its escaping backslashes, the character after each of them kept
\* (a delimiter or a backslash too) and a backslash that ends the string
\* dropped; a string without a backslash is returned as it is.
C12_UnescapeDropsEscapes ==
    /\ unOut = NoResult => ENABLED CallUnescape
    /\ unOut # NoResult =>
          /\ unOut[1] = Decoded(kvIn)
          /\ ~HasBackslash(kvIn) => unOut[1] = kvIn

C12_Witness ==
    /\ kvIn = <<BS, ":", BS, BS, BS>>
    /\ unOut = << <<":", BS>> >>

\* -------------------------------------------------------------- C17
\* the []string lists of a facet, read in heap h
ListsIn(h, facet) == [k \in DOMAIN facet |-> Elems(h, facet[k])]

\* what a bundle holds: the value of every key of every facet
Contents(b, h) ==
    [headers |-> b.headers, query |-> ListsIn(h, b.query), js |-> b.js,
     body |-> ListsIn(h, b.body), file |-> b.file]

FacetOf(t) ==
    CASE t = kvpHeader -> "headers"
      [] t = kvpQuery -> "query"
      [] t = kvpBody -> "body"
      [] t = kvpJSON -> "js"
      [] t = kvpFile -> "file"

Facets == {"headers", "query", "js", "body", "file"}

\* the iteration of parseArgs that consumes a token leaves every facet but
\* the token's own as it was, and its own as it was at every other key
TokenFrame ==
    pi' = pi + 1 =>
        LET r == parseKeyValue(args[pi + 1])
            before == Contents(kvp, heap)
            after == Contents(kvp', heap')
        IN \A f \in Facets :
               IF f = FacetOf(r.t)
                 THEN /\ DOMAIN after[f] = DOMAIN before[f] \cup {r.k}
                      /\ \A k \in DOMAIN before[f] \ {r.k} :
                             after[f][k] = before[f][k]
                 ELSE after[f] = before[f]

\* C17: processing one token changes only the mapping of that token's own
\* Kind, and only at that token's key; so a later Query token never alters
\* a list stored in body, nor a later Body token a list stored in query.
C17_TokenChangesOnlyItsOwn == [][TokenFrame]_vars

\* -------------------------------------------------------------- C14
\* the body was encoded as form fields
FormFields == body # NoPayload /\ body[1].enc \in {"UrlEncoded", "Multipart"}

\* the keys given by Body tokens alone: no Json token replaces the list and
\* no File token the parameter
BodyOnlyKeys ==
    TokenKeys(args, kvpBody) \ (TokenKeys(args, kvpJSON) \cup TokenKeys(args, kvpFile))

\* C14: when the body is encoded as form fields (UrlEncoded, or the extra
\* fields of Multipart), a body key given n values on the command line, n = 1
\* or n >= 2, contributes exactly n form fields under that key, one per
\* value, in order.
C14_OneFieldPerValue ==
    (Assembled /\ FormFields) =>
        \A k \in BodyOnlyKeys :
            /\ k \in DOMAIN body[1].fields
            /\ body[1].fields[k] = TokenValues(args, Len(args), kvpBody, k)

\* -------------------------------------------------------------- C13
\* the alphabet of the keys, in order
KeyAlphabet == <<"a", "b">>

Rank(c) == CHOOSE i \in 1..Len(KeyAlphabet) : KeyAlphabet[i] = c

\* s comes before t in lexicographic order: at the first position where they
\* differ, s has ended or has the smaller character
LexLess(s, t) ==
    \E i \in 1..(Len(s) + 1) :
        /\ i <= Len(t)
        /\ \A j \in 1..(i - 1) : s[j] = t[j]
        /\ i <= Len(s) => Rank(s[i]) < Rank(t[i])

OccursAt(text, pat, p) ==
    /\ p + Len(pat) - 1 <= Len(text)
    /\ SubSeq(text, p, p + Len(pat) - 1) = pat

\* where in text a line of the outermost object begins with the key k: a
\* newline, one unit of indentation, the quoted key, a colon and a space
MemberLine(k) == <<"\n">> \o Indent(1) \o Quote(k) \o <<":", " ">>

Places(text, k) == {p \in 1..Len(text) : OccursAt(text, MemberLine(k), p)}

\* C13: printJSON prints each member key of a decoded object exactly once and
\* in ascending lexicographic order of the keys, whatever the order in which
\* the map is visited: two renderings of the same value are the same text.
C13_KeysSortedOnce ==
    \A i \in 1..Len(jsOut) :
        /\ jsOut[i] = jsOut[1]
        /\ TypeOf(jsVal) = "map" =>
               /\ \A k \in DOMAIN ValueOf(jsVal) :
                      Cardinality(Places(jsOut[i], k)) = 1
               /\ \A k1, k2 \in DOMAIN ValueOf(jsVal) :
                      LexLess(k1, k2) =>
                          \A p1 \in Places(jsOut[i], k1),
                             p2 \in Places(jsOut[i], k2) : p1 < p2

\* {"b":1,"a":1,"ab":1} printed twice, a before ab before b
C13_Witness ==
    /\ jsVal = Val("map", [k \in JsKeys |-> Val("json.Number", <<"1">>)])
    /\ Len(jsOut) = 2
    /\ jsOut[2] = <<"{", "\n">>
                    \o Indent(1) \o <<"\"", "a", "\"", ":", " ", "1", ",", "\n">>
                    \o Indent(1) \o <<"\"", "a", "b", "\"", ":", " ", "1", ",", "\n">>
                    \o Indent(1) \o <<"\"", "b", "\"", ":", " ", "1", "\n", "}">>

\* -------------------------------------------------------------- C16
\* the keys of m in ascending order
Ascending(m) ==
    CHOOSE o \in Orders(m) :
        \A i, j \in 1..Len(o) : i < j => LexLess(o[i], o[j])

\* the lines joined by a comma and a newline
RECURSIVE Joined(_)
Joined(lines) ==
    IF Len(lines) = 1 THEN lines[1]
    ELSE lines[1] \o <<",", "\n">> \o Joined(Tail(lines))

\* the text of val at depth d: an empty container is its two brackets; any
\* other container is its opening bracket and a newline, its members each on
\* a line indented d units and laid out at depth d + 1, and the closing
\* bracket on a line of its own indented d - 1 units
RECURSIVE Layout(_, _)
Layout(d, val) ==
    IF TypeOf(val) = "map" THEN
        LET m == ValueOf(val)
            keys == Ascending(m)
        IN IF DOMAIN m = {} THEN <<"{", "}">>
           ELSE <<"{", "\n">>
                  \o Joined([i \in 1..Len(keys) |->
                                Indent(d) \o Quote(keys[i]) \o <<":", " ">>
                                    \o Layout(d + 1, m[keys[i]])])
                  \o <<"\n">> \o Indent(d - 1) \o <<"}">>
    ELSE IF TypeOf(val) = "[]interface{}" THEN
        LET a == ValueOf(val)
        IN IF a = <<>> THEN <<"[", "]">>
           ELSE <<"[", "\n">>
                  \o Joined([i \in 1..Len(a) |->
                                Indent(d) \o Layout(d + 1, a[i])])
                  \o <<"\n">> \o Indent(d - 1) \o <<"]">>
    ELSE CHOOSE text \in printJSON(d, val, FALSE) : TRUE

\* C16: what printJSON prints of a decoded value at depth d is laid out by
\* depth: an empty object is exactly {} and an empty array exactly []; any
\* other object or array is its opening bracket and a newline, each member on
\* its own line indented d units of four spaces, consecutive members
\* separated by a comma and a newline, and the closing bracket on its own
\* line indented d - 1 units; a nested container is laid out at depth d + 1.
C16_LaidOutByDepth ==
    \A i \in 1..Len(jsOut) : jsOut[i] = Layout(1, jsVal)

\* [[1],{}]: a nested array at depth 2 and an empty object
C16_Witness ==
    /\ jsVal = Val("[]interface{}",
                   <<Val("[]interface{}", <<Val("json.Number", <<"1">>)>>),
                     Val("map", EmptyMap)>>)
    /\ jsOut # <<>>
    /\ jsOut[1] = <<"[", "\n">> \o Indent(1) \o <<"[", "\n">>
                    \o Indent(2) \o <<"1", "\n">>
                    \o Indent(1) \o <<"]", ",", "\n">>
                    \o Indent(1) \o <<"{", "}", "\n", "]">>

\* -------------------------------------------------------------- C15
\* what a value contributes by its shape: the fields, in order, and the
\* types logged; an object contributes its keys in some order; a number is
\* a field when numberIsField, and one more other shape when not
RECURSIVE Shape(_, _)
Shape(val, numberIsField) ==
    LET other == {[fields |-> <<>>, log |-> <<TypeOf(val)>>]}
    IN CASE TypeOf(val) = "bool" ->
              {[fields |-> <<IF ValueOf(val) THEN <<"t", "r", "u", "e">>
                             ELSE <<"f", "a", "l", "s", "e">>>>,
                log |-> <<>>]}
         [] TypeOf(val) = "string" ->
              {[fields |-> <<ValueOf(val)>>, log |-> <<>>]}
         [] TypeOf(val) = "float64" ->
              IF numberIsField
                THEN {[fields |-> <<FormatG(ValueOf(val))>>, log |-> <<>>]}
                ELSE other
         [] TypeOf(val) = "[]interface{}" ->
              LET a == ValueOf(val)
                  F[i \in 0..Len(a)] ==
                      IF i = 0 THEN {[fields |-> <<>>, log |-> <<>>]}
                      ELSE {[fields |-> p.fields \o e.fields,
                             log |-> p.log \o e.log] :
                               p \in F[i - 1], e \in Shape(a[i], numberIsField)}
              IN F[Len(a)]
         [] TypeOf(val) = "map" ->
              {[fields |-> o, log |-> <<>>] : o \in Orders(ValueOf(val))}
         [] OTHER -> other

\* values with the fields added under key, after those it had
WithFields(values, key, fields) ==
    IF fields = <<>> THEN values
    ELSE [x \in (DOMAIN values) \cup {key} |->
             IF x = key
               THEN (IF key \in DOMAIN values THEN values[key] ELSE <<>>)
                        \o fields
               ELSE values[x]]

\* addValues returned, and what it did is what the shape of the value gives
AddedByShape(numberIsField) ==
    /\ (avIn # NoResult /\ avOut = NoResult) => ENABLED CallAddValues
    /\ avOut # NoResult =>
           \E s \in Shape(jsVal, numberIsField) :
               /\ avOut[1].values =
                      WithFields(avIn[1].values, avIn[1].key, s.fields)
               /\ avOut[1].log =
                      [i \in 1..Len(s.log) |->
                          LogEntry("unknown type: ", <<s.log[i]>>)]

====
